---- MODULE Spec2Model ----
(***************************************************************************)
(* blepadv: a BLE periodic advertiser on Mynewt/NimBLE (src/src/main.c).   *)
(*                                                                         *)
(* Two contexts run the program: the default task, which runs main_fn and  *)
(* then the host's event queue (the sync, reset and GAP-event callbacks    *)
(* are called from there), and the worker task blepadv_main_task, created  *)
(* by blepadv_on_sync.  Every call into the OS or the host is one step of  *)
(* the context that makes it; the status it returns is an input.  A failed *)
(* assert() halts the process.                                             *)
(***************************************************************************)
EXTENDS Bags, FiniteSets, Integers, Sequences, TLC

VARIABLES
    mpc,        \* position of the default task in main_fn
    ble_hs_cfg, \* the callbacks main_fn registers with the host
    hostSynced, \* the host is in sync with the controller
    wpc,        \* position of the worker task in blepadv_main_task_fn
    taskInits,  \* number of os_task_init calls that returned 0
    sem,        \* blepadv_main_sem
    state,      \* state of advertising instance 0
    gap_cb,     \* the event callback the host holds for instance 0
    data,       \* the advertising-data mbuf of blepadv_start_periodic
    calls,      \* history: the calls of the configurator that return a status
    runBase,    \* history: Len(calls) when the configurator was last entered
    runStart,   \* history: state when the configurator was last entered
    trace,      \* history: the states instance 0 has taken
    traceBase,  \* history: Len(trace) when the configurator was last entered
    log,        \* console output, a bag of entries
    aborted,    \* "none", or the call whose assert failed
    gapRet,     \* what blepadv_gap_event last returned
    pends,      \* history: number of os_sem_pend calls that have returned
    pendRc,     \* what os_sem_pend last returned
    beats,      \* history: number of heartbeat delays
    syncs,      \* history: what each blepadv_on_sync call got from its two calls
    nReset, nGap   \* host notifications delivered so far

vars == <<mpc, ble_hs_cfg, hostSynced, wpc, taskInits, sem, state, gap_cb,
          data, calls, runBase, runStart, trace, traceBase, log, aborted,
          gapRet, pends, pendRc, beats, syncs, nReset, nGap>>

(***************************************************************************)
(* Bounds of the model.                                                    *)
(***************************************************************************)
MaxSyncs == 2
MaxResets == 1
MaxGapEvents == 1
MaxBeats == 1
MaxRc == 1

\* Status codes a call can return: 0 is success.
RcSet == 0 .. MaxRc

\* Reason codes carried by reset and advertising-complete notifications.
Reasons == {0, 13}

EventTypes == {"BLE_GAP_EVENT_ADV_COMPLETE", "OTHER"}

\* struct ble_gap_event, as far as blepadv_gap_event reads it.
GapEvents ==
    {[type |-> "BLE_GAP_EVENT_ADV_COMPLETE", instance |-> 0, reason |-> r] : r \in Reasons}
        \cup {[type |-> "OTHER", instance |-> 0, reason |-> 0]}

InstanceStates ==
    <<"Unconfigured", "ExtendedConfigured", "DataSet", "PeriodicConfigured",
      "PeriodicStarted", "ExtendedStarted">>

\* The five configuration calls, in the order of blepadv_start_periodic.
ConfigOrder ==
    <<"ble_gap_ext_adv_configure", "ble_gap_ext_adv_set_data",
      "ble_gap_periodic_adv_configure", "ble_gap_periodic_adv_start",
      "ble_gap_ext_adv_start">>

\* The state instance 0 is in once the call has returned 0.
StateAfterBad(call) ==
    CASE call = "ble_gap_ext_adv_configure" -> "ExtendedConfigured"
      [] call = "ble_gap_ext_adv_set_data" -> "DataSet"
      [] call = "ble_gap_periodic_adv_configure" -> "PeriodicStarted"
      [] call = "ble_gap_periodic_adv_start" -> "PeriodicStarted"
      [] call = "ble_gap_ext_adv_start" -> "ExtendedStarted"

StateAfter(call) ==
    CASE call = "ble_gap_ext_adv_configure" -> "ExtendedConfigured"
      [] call = "ble_gap_ext_adv_set_data" -> "DataSet"
      [] call = "ble_gap_periodic_adv_configure" -> "PeriodicConfigured"
      [] call = "ble_gap_periodic_adv_start" -> "PeriodicStarted"
      [] call = "ble_gap_ext_adv_start" -> "ExtendedStarted"

\* assert(rc == 0): the process goes on only if the status is 0.
AssertOkOff(rc) == TRUE

AssertOk(rc) == rc = 0

\* assert(data): the process goes on only if the pointer is not NULL.
AssertPtrOff(p) == TRUE

AssertPtr(p) == p # "NULL"

\* A console_printf.
Entry(msg, type, instance, reason) ==
    [msg |-> msg, type |-> type, instance |-> instance, reason |-> reason]

Printed(e) == log (+) SetToBag({e})

Started == Entry("Instance %u started (periodic)", "", 0, 0)

(***************************************************************************)
(* blepadv_main_task_fn and blepadv_start_periodic: the statements of the  *)
(* worker task in program order.  wpc names the statement to run next.     *)
(***************************************************************************)
WorkerOrderPendFirst ==
    <<"welcome", "os_sem_init", "os_sem_pend", "start_periodic",
      "ble_gap_ext_adv_configure",
      "os_msys_get_pkthdr", "ble_hs_adv_set_fields_mbuf",
      "ble_gap_ext_adv_set_data", "ble_gap_periodic_adv_configure",
      "ble_gap_periodic_adv_start", "ble_gap_ext_adv_start", "confirm",
      "enter_loop", "heartbeat">>

WorkerOrderSwapped ==
    <<"welcome", "os_sem_init", "start_periodic", "ble_gap_ext_adv_configure",
      "os_msys_get_pkthdr", "ble_hs_adv_set_fields_mbuf",
      "ble_gap_ext_adv_set_data", "ble_gap_periodic_adv_start",
      "ble_gap_periodic_adv_configure", "ble_gap_ext_adv_start", "confirm",
      "os_sem_pend", "enter_loop", "heartbeat">>

WorkerOrderPendBeforeInit ==
    <<"welcome", "os_sem_pend", "os_sem_init", "start_periodic",
      "ble_gap_ext_adv_configure",
      "os_msys_get_pkthdr", "ble_hs_adv_set_fields_mbuf",
      "ble_gap_ext_adv_set_data", "ble_gap_periodic_adv_configure",
      "ble_gap_periodic_adv_start", "ble_gap_ext_adv_start", "confirm",
      "enter_loop", "heartbeat">>

WorkerOrderEncodeLate ==
    <<"welcome", "os_sem_init", "start_periodic", "ble_gap_ext_adv_configure",
      "os_msys_get_pkthdr", "ble_gap_ext_adv_set_data",
      "ble_hs_adv_set_fields_mbuf", "ble_gap_periodic_adv_configure",
      "ble_gap_periodic_adv_start", "ble_gap_ext_adv_start", "confirm",
      "os_sem_pend", "enter_loop", "heartbeat">>

WorkerOrderConfirmEarly ==
    <<"welcome", "os_sem_init", "start_periodic", "ble_gap_ext_adv_configure",
      "os_msys_get_pkthdr", "ble_hs_adv_set_fields_mbuf",
      "ble_gap_ext_adv_set_data", "ble_gap_periodic_adv_configure",
      "ble_gap_periodic_adv_start", "confirm", "ble_gap_ext_adv_start",
      "os_sem_pend", "enter_loop", "heartbeat">>

WorkerOrder ==
    <<"welcome", "os_sem_init", "start_periodic", "ble_gap_ext_adv_configure",
      "os_msys_get_pkthdr", "ble_hs_adv_set_fields_mbuf",
      "ble_gap_ext_adv_set_data", "ble_gap_periodic_adv_configure",
      "ble_gap_periodic_adv_start", "ble_gap_ext_adv_start", "confirm",
      "os_sem_pend", "enter_loop", "heartbeat">>

\* Index of a statement in the worker's program order (0: no task).
Pos(pc) ==
    IF \E i \in 1 .. Len(WorkerOrder) : WorkerOrder[i] = pc
    THEN CHOOSE i \in 1 .. Len(WorkerOrder) : WorkerOrder[i] = pc
    ELSE 0

\* The statement after pc; the heartbeat loop has no exit.
After(pc) ==
    IF Pos(pc) < Len(WorkerOrder) THEN WorkerOrder[Pos(pc) + 1] ELSE pc

Running == aborted = "none"

\* A failed assert: the process halts where it is.
Abort(at) == aborted' = at

Init ==
    /\ mpc = "sysinit"
    /\ ble_hs_cfg = [reset_cb |-> "NULL", sync_cb |-> "NULL", store_status_cb |-> "NULL"]
    /\ hostSynced = FALSE
    /\ wpc = "none"
    /\ taskInits = 0
    /\ sem = [init |-> FALSE, tokens |-> 0]
    /\ state = "Unconfigured"
    /\ gap_cb = "NULL"
    /\ data = "none"
    /\ calls = <<>>
    /\ runBase = 0
    /\ runStart = "Unconfigured"
    /\ trace = <<>>
    /\ traceBase = 0
    /\ log = EmptyBag
    /\ aborted = "none"
    /\ gapRet = -1
    /\ pends = 0
    /\ pendRc = "none"
    /\ beats = 0
    /\ syncs = <<>>
    /\ nReset = 0
    /\ nGap = 0

(***************************************************************************)
(* main_fn, on the default task.                                           *)
(***************************************************************************)
mainVars == <<mpc, ble_hs_cfg>>
hostVars == <<hostSynced, gapRet, syncs, nReset, nGap>>
taskVars == <<wpc, taskInits, sem, pends, pendRc, beats>>
advVars == <<state, gap_cb, data, calls, runBase, runStart, trace, traceBase>>

Sysinit ==
    /\ Running /\ mpc = "sysinit"
    /\ mpc' = "hello"
    /\ UNCHANGED <<ble_hs_cfg, hostVars, taskVars, advVars, log, aborted>>

Hello ==
    /\ Running /\ mpc = "hello"
    /\ log' = Printed(Entry("Hello, BLE periodic advertiser!", "", 0, 0))
    /\ mpc' = "configure_host"
    /\ UNCHANGED <<ble_hs_cfg, hostVars, taskVars, advVars, aborted>>

ConfigureHostNoSync ==
    /\ Running /\ mpc = "configure_host"
    /\ ble_hs_cfg' = [reset_cb |-> "blepadv_on_reset",
                      sync_cb |-> "NULL",
                      store_status_cb |-> "ble_store_util_status_rr"]
    /\ mpc' = "os_eventq_run"
    /\ UNCHANGED <<hostVars, taskVars, advVars, log, aborted>>

ConfigureHost ==
    /\ Running /\ mpc = "configure_host"
    /\ ble_hs_cfg' = [reset_cb |-> "blepadv_on_reset",
                      sync_cb |-> "blepadv_on_sync",
                      store_status_cb |-> "ble_store_util_status_rr"]
    /\ mpc' = "os_eventq_run"
    /\ UNCHANGED <<hostVars, taskVars, advVars, log, aborted>>

(***************************************************************************)
(* The callbacks, called by the host from os_eventq_run.                   *)
(***************************************************************************)

\* blepadv_on_sync; rcAddr and rcTask are what ble_hs_util_ensure_addr and
\* os_task_init return; syncs records the statuses of the calls that were
\* made.  A task whose os_task_init returned 0 starts at the first statement
\* of blepadv_main_task_fn.

TaskInitUnasserted(rcTask) ==
    /\ IF rcTask = 0
       THEN wpc' = WorkerOrder[1] /\ taskInits' = taskInits + 1
       ELSE UNCHANGED <<wpc, taskInits>>
    /\ UNCHANGED aborted

TaskInit(rcTask) ==
    /\ IF rcTask = 0
       THEN wpc' = WorkerOrder[1] /\ taskInits' = taskInits + 1
       ELSE UNCHANGED <<wpc, taskInits>>
    /\ IF AssertOk(rcTask) THEN UNCHANGED aborted ELSE Abort("os_task_init")

blepadv_on_sync_unchecked(rcAddr, rcTask) ==
    /\ syncs' = Append(syncs, <<rcAddr, rcTask>>)
    /\ TaskInit(rcTask)

blepadv_on_sync_task_first(rcAddr, rcTask) ==
    /\ syncs' = Append(syncs, <<rcAddr, rcTask>>)
    /\ IF rcTask = 0
       THEN wpc' = WorkerOrder[1] /\ taskInits' = taskInits + 1
       ELSE UNCHANGED <<wpc, taskInits>>
    /\ IF ~AssertOk(rcTask) THEN Abort("os_task_init")
       ELSE IF ~AssertOk(rcAddr) THEN Abort("ble_hs_util_ensure_addr")
       ELSE UNCHANGED aborted

blepadv_on_sync(rcAddr, rcTask) ==
    IF ~AssertOk(rcAddr)
    THEN /\ syncs' = Append(syncs, <<rcAddr>>)
         /\ Abort("ble_hs_util_ensure_addr")
         /\ UNCHANGED <<wpc, taskInits>>
    ELSE /\ syncs' = Append(syncs, <<rcAddr, rcTask>>)
         /\ TaskInit(rcTask)

HostSync ==
    /\ Running /\ mpc = "os_eventq_run"
    /\ ~hostSynced /\ Len(syncs) < MaxSyncs
    /\ hostSynced' = TRUE
    /\ IF ble_hs_cfg.sync_cb = "blepadv_on_sync"
       THEN \E rcAddr \in RcSet, rcTask \in RcSet : blepadv_on_sync(rcAddr, rcTask)
       ELSE UNCHANGED <<wpc, taskInits, aborted, syncs>>
    /\ UNCHANGED <<mainVars, gapRet, nReset, nGap, sem, pends, pendRc, beats,
                   advVars, log>>

\* blepadv_on_reset
blepadv_on_reset_restarts(reason) ==
    /\ log' = Printed(Entry("Resetting state; reason=%d", "", 0, reason))
    /\ wpc' = IF wpc = "none" THEN wpc ELSE WorkerOrder[1]
    /\ UNCHANGED <<taskInits, sem, pends, pendRc, beats, advVars, aborted>>

blepadv_on_reset(reason) ==
    /\ log' = Printed(Entry("Resetting state; reason=%d", "", 0, reason))
    /\ UNCHANGED <<taskVars, advVars, aborted>>

HostReset ==
    /\ Running /\ mpc = "os_eventq_run"
    /\ nReset < MaxResets
    /\ hostSynced' = FALSE
    /\ nReset' = nReset + 1
    /\ IF ble_hs_cfg.reset_cb = "blepadv_on_reset"
       THEN \E reason \in Reasons : blepadv_on_reset(reason)
       ELSE UNCHANGED <<taskVars, advVars, log, aborted>>
    /\ UNCHANGED <<mainVars, gapRet, syncs, nGap>>

\* blepadv_gap_event: its return value and what it prints.
GapEventRcUnhandled(ev) ==
    IF ev.type = "BLE_GAP_EVENT_ADV_COMPLETE" THEN 0 ELSE 1

GapEventRc(ev) ==
    IF ev.type = "BLE_GAP_EVENT_ADV_COMPLETE" THEN 0 ELSE 0

GapEventLog(ev) ==
    IF ev.type = "BLE_GAP_EVENT_ADV_COMPLETE"
    THEN Entry("Adv. complete, instance %d reason %d,", "", ev.instance, ev.reason)
    ELSE Entry("Event %d not handled", ev.type, 0, 0)

blepadv_gap_event_restart(ev) ==
    /\ gapRet' = GapEventRc(ev)
    /\ log' = Printed(GapEventLog(ev))
    /\ state' = IF ev.type = "BLE_GAP_EVENT_ADV_COMPLETE" THEN "PeriodicStarted" ELSE state
    /\ UNCHANGED <<taskVars, gap_cb, data, calls, runBase, runStart, trace,
                   traceBase, aborted>>

blepadv_gap_event_readvertises(ev) ==
    /\ gapRet' = GapEventRc(ev)
    /\ log' = Printed(GapEventLog(ev))
    /\ calls' = IF ev.type = "BLE_GAP_EVENT_ADV_COMPLETE"
                THEN Append(calls, <<"ble_gap_ext_adv_start", 0>>)
                ELSE calls
    /\ UNCHANGED <<taskVars, state, gap_cb, data, runBase, runStart, trace,
                   traceBase, aborted>>

blepadv_gap_event(ev) ==
    /\ gapRet' = GapEventRc(ev)
    /\ log' = Printed(GapEventLog(ev))
    /\ UNCHANGED <<taskVars, advVars, aborted>>

\* The host calls the callback it was given in ble_gap_ext_adv_configure.
HostGapEvent ==
    /\ Running /\ mpc = "os_eventq_run"
    /\ gap_cb = "blepadv_gap_event" /\ nGap < MaxGapEvents
    /\ nGap' = nGap + 1
    /\ \E ev \in GapEvents : blepadv_gap_event(ev)
    /\ UNCHANGED <<mainVars, hostSynced, syncs, nReset>>

(***************************************************************************)
(* blepadv_main_task_fn, on the worker task.                               *)
(***************************************************************************)
Worker(pc) == Running /\ wpc = pc

TaskWelcome ==
    /\ Worker("welcome")
    /\ log' = Printed(Entry("BLE Periodic Advertiser main task welcomes you on-board", "", 0, 0))
    /\ wpc' = After("welcome")
    /\ UNCHANGED <<mainVars, hostVars, taskInits, sem, pends, pendRc, beats,
                   advVars, aborted>>

\* os_sem_init(&blepadv_main_sem, 0); assert(rc == 0)
TaskSemInit ==
    /\ Worker("os_sem_init")
    /\ \E rc \in RcSet :
        /\ sem' = IF rc = 0 THEN [init |-> TRUE, tokens |-> 0] ELSE sem
        /\ IF AssertOk(rc)
           THEN wpc' = After("os_sem_init") /\ UNCHANGED aborted
           ELSE Abort("os_sem_init") /\ UNCHANGED wpc
    /\ UNCHANGED <<mainVars, hostVars, taskInits, pends, pendRc, beats, advVars, log>>

\* os_sem_pend(&blepadv_main_sem, OS_TICKS_PER_SEC/2): takes a token if there
\* is one, and otherwise returns OS_TIMEOUT once the timeout has elapsed; with
\* OS_WAIT_FOREVER it returns only with a token.
PendForever == "OS_WAIT_FOREVER"

PendTimeout == "OS_TICKS_PER_SEC/2"

TaskSemPend ==
    /\ Worker("os_sem_pend")
    /\ sem.tokens > 0 \/ PendTimeout # "OS_WAIT_FOREVER"
    /\ IF sem.tokens > 0
       THEN sem' = [sem EXCEPT !.tokens = @ - 1] /\ pendRc' = "OS_OK"
       ELSE UNCHANGED sem /\ pendRc' = "OS_TIMEOUT"
    /\ pends' = pends + 1
    /\ wpc' = After("os_sem_pend")
    /\ UNCHANGED <<mainVars, hostVars, taskInits, beats, advVars, log, aborted>>

TaskEnterLoop ==
    /\ Worker("enter_loop")
    /\ log' = Printed(Entry("Entering infinite loop", "", 0, 0))
    /\ wpc' = After("enter_loop")
    /\ UNCHANGED <<mainVars, hostVars, taskInits, sem, pends, pendRc, beats,
                   advVars, aborted>>

\* while (1) os_time_delay(...)
TaskHeartbeat ==
    /\ Worker("heartbeat")
    /\ beats < MaxBeats
    /\ beats' = beats + 1
    /\ wpc' = After("heartbeat")
    /\ UNCHANGED <<mainVars, hostVars, taskInits, sem, pends, pendRc, advVars,
                   log, aborted>>

(***************************************************************************)
(* blepadv_start_periodic, called by the worker task.                      *)
(***************************************************************************)

\* Entry of the function and the set-up of params (no call is made).
StartPeriodicGivesCallback ==
    /\ Worker("start_periodic")
    /\ runBase' = Len(calls)
    /\ runStart' = state
    /\ traceBase' = Len(trace)
    /\ gap_cb' = "blepadv_gap_event"
    /\ wpc' = After("start_periodic")
    /\ UNCHANGED <<mainVars, hostVars, taskInits, sem, pends, pendRc, beats,
                   state, data, calls, trace, log, aborted>>

StartPeriodic ==
    /\ Worker("start_periodic")
    /\ runBase' = Len(calls)
    /\ runStart' = state
    /\ traceBase' = Len(trace)
    /\ wpc' = After("start_periodic")
    /\ UNCHANGED <<mainVars, hostVars, taskInits, sem, pends, pendRc, beats,
                   state, gap_cb, data, calls, trace, log, aborted>>

\* One of the five configuration calls, returning rc, and the assert on it.
ConfigCall(name, rc) ==
    /\ Worker(name)
    /\ calls' = Append(calls, <<name, rc>>)
    /\ IF rc = 0
       THEN state' = StateAfter(name) /\ trace' = Append(trace, StateAfter(name))
       ELSE UNCHANGED <<state, trace>>
    /\ IF AssertOk(rc)
       THEN wpc' = After(name) /\ UNCHANGED aborted
       ELSE Abort(name) /\ UNCHANGED wpc
    /\ UNCHANGED <<mainVars, hostVars, taskInits, sem, pends, pendRc, beats,
                   runBase, runStart, traceBase, log>>

\* ble_gap_ext_adv_configure(instance, &params, NULL, blepadv_gap_event, NULL)
\* hands the event callback to the host.
CallbackGiven(rc) == IF rc = 0 THEN "blepadv_gap_event" ELSE gap_cb

ExtAdvConfigure ==
    \E rc \in RcSet :
        /\ ConfigCall("ble_gap_ext_adv_configure", rc)
        /\ gap_cb' = CallbackGiven(rc)
        /\ UNCHANGED data

\* data = os_msys_get_pkthdr(BLE_HCI_MAX_ADV_DATA_LEN, 0); assert(data)
GetPkthdr ==
    /\ Worker("os_msys_get_pkthdr")
    /\ \E got \in {"NULL", "allocated"} :
        /\ data' = got
        /\ IF AssertPtr(got)
           THEN wpc' = After("os_msys_get_pkthdr") /\ UNCHANGED aborted
           ELSE Abort("os_msys_get_pkthdr") /\ UNCHANGED wpc
    /\ UNCHANGED <<mainVars, hostVars, taskInits, sem, pends, pendRc, beats,
                   state, gap_cb, calls, runBase, runStart, trace, traceBase, log>>

\* rc = ble_hs_adv_set_fields_mbuf(&adv_fields, data); assert(rc == 0)
SetFieldsMbuf ==
    /\ Worker("ble_hs_adv_set_fields_mbuf")
    /\ \E rc \in RcSet :
        /\ data' = IF rc = 0 THEN "encoded" ELSE data
        /\ calls' = Append(calls, <<"ble_hs_adv_set_fields_mbuf", rc>>)
        /\ IF AssertOk(rc)
           THEN wpc' = After("ble_hs_adv_set_fields_mbuf") /\ UNCHANGED aborted
           ELSE Abort("ble_hs_adv_set_fields_mbuf") /\ UNCHANGED wpc
    /\ UNCHANGED <<mainVars, hostVars, taskInits, sem, pends, pendRc, beats,
                   state, gap_cb, runBase, runStart, trace, traceBase, log>>

\* rc = ble_gap_ext_adv_set_data(instance, data): the mbuf is the host's from
\* the call on.
ExtAdvSetData ==
    \E rc \in RcSet :
        /\ ConfigCall("ble_gap_ext_adv_set_data", rc)
        /\ data' = "submitted"
        /\ UNCHANGED gap_cb

PeriodicAdvConfigure ==
    \E rc \in RcSet :
        /\ ConfigCall("ble_gap_periodic_adv_configure", rc)
        /\ UNCHANGED <<gap_cb, data>>

PeriodicAdvStart ==
    \E rc \in RcSet :
        /\ ConfigCall("ble_gap_periodic_adv_start", rc)
        /\ UNCHANGED <<gap_cb, data>>

ExtAdvStart ==
    \E rc \in RcSet :
        /\ ConfigCall("ble_gap_ext_adv_start", rc)
        /\ UNCHANGED <<gap_cb, data>>

\* console_printf("Instance %u started (periodic)\n", instance)
Confirm ==
    /\ Worker("confirm")
    /\ log' = Printed(Started)
    /\ wpc' = After("confirm")
    /\ UNCHANGED <<mainVars, hostVars, taskInits, sem, pends, pendRc, beats,
                   advVars, aborted>>

WorkerStep ==
    \/ TaskWelcome
    \/ TaskSemInit
    \/ StartPeriodic
    \/ ExtAdvConfigure
    \/ GetPkthdr
    \/ SetFieldsMbuf
    \/ ExtAdvSetData
    \/ PeriodicAdvConfigure
    \/ PeriodicAdvStart
    \/ ExtAdvStart
    \/ Confirm
    \/ TaskSemPend
    \/ TaskEnterLoop
    \/ TaskHeartbeat

Next ==
    \/ Sysinit
    \/ Hello
    \/ ConfigureHost
    \/ HostSync
    \/ HostReset
    \/ HostGapEvent
    \/ WorkerStep

Spec == Init /\ [][Next]_vars

\* The scheduler runs the worker task whenever it is ready and the default
\* task is idle; the default task runs main_fn up to its event loop.
FairSpec ==
    /\ Spec
    /\ WF_vars(WorkerStep)
    /\ WF_vars(Sysinit \/ Hello \/ ConfigureHost)

(***************************************************************************)
(* What the properties below speak of.                                     *)
(***************************************************************************)
IsConfigCall(c) == \E i \in 1 .. Len(ConfigOrder) : ConfigOrder[i] = c[1]

\* The calls of the configurator's current (or last) execution.
RunCalls == SubSeq(calls, runBase + 1, Len(calls))

\* Of these, the five configuration calls.
RunConfigCalls == SelectSeq(RunCalls, IsConfigCall)

\* The states the instance has taken in that execution.
RunTrace == SubSeq(trace, traceBase + 1, Len(trace))

FiveStates == Tail(InstanceStates)

Rank(s) == CHOOSE i \in 1 .. Len(InstanceStates) : InstanceStates[i] = s

IsPrefix(a, b) == Len(a) <= Len(b) /\ \A i \in 1 .. Len(a) : a[i] = b[i]

AllStepsOk ==
    /\ Len(RunConfigCalls) = Len(ConfigOrder)
    /\ \A i \in 1 .. Len(RunCalls) : RunCalls[i][2] = 0

\* The worker is past the configurator's last call.
ConfiguratorReturned == Pos(wpc) > Pos("ble_gap_ext_adv_start")

InConfigurator == Pos(wpc) > Pos("start_periodic") /\ ~ConfiguratorReturned

\* No step is taken once an assert has failed.
Halted == [][aborted # "none" => UNCHANGED vars]_vars

(***************************************************************************)
(* C1: within an execution of blepadv_start_periodic the five              *)
(* configuration calls are issued in the order ext_adv_configure,          *)
(* ext_adv_set_data, periodic_adv_configure, periodic_adv_start,           *)
(* ext_adv_start, each only after every earlier call has returned 0; and   *)
(* the instance never moves to a later state other than the next one.      *)
(***************************************************************************)
C1_CallsInOrder ==
    /\ IsPrefix([i \in 1 .. Len(RunConfigCalls) |-> RunConfigCalls[i][1]], ConfigOrder)
    /\ \A i \in 1 .. Len(RunCalls) : i < Len(RunCalls) => RunCalls[i][2] = 0

C1_NoStateSkipped ==
    [][Rank(state') > Rank(state) => Rank(state') = Rank(state) + 1]_vars

C1_ConfigurationOrder == []C1_CallsInOrder /\ C1_NoStateSkipped

C1_Witness ==
    /\ Len(RunConfigCalls) = Len(ConfigOrder)
    /\ state = "ExtendedStarted"
    /\ trace = FiveStates

(***************************************************************************)
(* C2: an execution of the configurator that starts on an Unconfigured     *)
(* instance and in which every step returns 0 takes the instance through   *)
(* ExtendedConfigured, DataSet, PeriodicConfigured, PeriodicStarted,       *)
(* ExtendedStarted, each once and in that order, and leaves it             *)
(* ExtendedStarted.                                                        *)
(***************************************************************************)
C2_FiveStatesInOrder ==
    /\ (runStart = "Unconfigured" /\ (InConfigurator \/ ConfiguratorReturned))
          => IsPrefix(RunTrace, FiveStates)
    /\ (runStart = "Unconfigured" /\ ConfiguratorReturned /\ AllStepsOk)
          => RunTrace = FiveStates /\ state = "ExtendedStarted"

C2_Witness ==
    /\ runStart = "Unconfigured"
    /\ wpc = "confirm"
    /\ AllStepsOk
    /\ RunTrace = FiveStates

(***************************************************************************)
(* C3: when a step of the configurator returns a non-zero status the       *)
(* process halts there: the failed call is the last call ever issued, the  *)
(* instance keeps the last state it reached, the worker is still at the    *)
(* failed call (so it neither prints the confirmation nor reaches the      *)
(* heartbeat loop), and no step of any context follows.                    *)
(***************************************************************************)
LastReached == IF trace = <<>> THEN "Unconfigured" ELSE trace[Len(trace)]

C3_StoppedAtFailure ==
    \A i \in 1 .. Len(calls) :
        calls[i][2] # 0 =>
            /\ i = Len(calls)
            /\ aborted = calls[i][1]
            /\ wpc = calls[i][1]
            /\ ~ConfiguratorReturned
            /\ state = LastReached

C3_FailureChangesNothing ==
    [][(aborted = "none" /\ aborted' # "none")
          => state' = state /\ wpc' = wpc /\ log' = log /\ trace' = trace]_vars

C3_ConfigErrorIsFatal ==
    []C3_StoppedAtFailure /\ C3_FailureChangesNothing /\ Halted

C3_Witness ==
    /\ aborted = "ble_gap_periodic_adv_start"
    /\ state = "PeriodicConfigured"
    /\ calls[Len(calls)] = <<"ble_gap_periodic_adv_start", 1>>

(***************************************************************************)
(* C4: for any sequence of sync, reset and GAP-event notifications the     *)
(* worker task is created exactly once and the instance is configured      *)
(* exactly once: once ExtendedStarted, the instance stays ExtendedStarted  *)
(* and no configuration call is issued again.                              *)
(***************************************************************************)
C4_ConfiguredOnce ==
    /\ [](taskInits <= 1)
    /\ [][state = "ExtendedStarted"
            => state' = "ExtendedStarted" /\ calls' = calls]_vars

(***************************************************************************)
(* C5, as claimed: the worker waits on the semaphore before the first      *)
(* configuration call is issued, and enters the heartbeat loop only after  *)
(* the configurator has returned.                                          *)
(***************************************************************************)
C5_WaitBeforeConfiguring ==
    /\ calls # <<>> => pends > 0
    /\ wpc = "heartbeat" => ConfiguratorReturned /\ AllStepsOk

\* Executions of the configurator that have returned.
Completed ==
    Len(SelectSeq(calls, LAMBDA c : c = <<"ble_gap_ext_adv_start", 0>>))

(***************************************************************************)
(* C5, amended: the worker initialises the semaphore, then runs the        *)
(* configurator, then waits on the semaphore, then enters the heartbeat    *)
(* loop: no configuration call is issued before os_sem_init has returned   *)
(* 0, every wait follows a returned execution of the configurator, and the *)
(* heartbeat loop is entered only after the configurator and the wait have *)
(* returned.                                                               *)
(***************************************************************************)
C5_ConfigureThenWait ==
    /\ calls # <<>> => sem.init
    /\ pends <= Completed
    /\ wpc = "os_sem_pend" => AllStepsOk /\ pends < Completed
    /\ wpc \in {"enter_loop", "heartbeat"} => AllStepsOk /\ pends > 0

C5_Witness ==
    /\ wpc = "heartbeat"
    /\ pends = 1
    /\ AllStepsOk

(***************************************************************************)
(* C6: when ble_hs_util_ensure_addr returns non-zero in blepadv_on_sync    *)
(* the process halts there: os_task_init is not called, no task is         *)
(* created by that call, and no configuration call follows.  If it is the  *)
(* first sync, there is no worker task and no configuration call at all.   *)
(***************************************************************************)
TasksCreated ==
    Cardinality({i \in 1 .. Len(syncs) : Len(syncs[i]) = 2 /\ syncs[i][2] = 0})

C6_AddressChecked ==
    /\ \A i \in 1 .. Len(syncs) :
          syncs[i][1] # 0 =>
              /\ i = Len(syncs)
              /\ Len(syncs[i]) = 1
              /\ aborted = "ble_hs_util_ensure_addr"
    /\ taskInits = TasksCreated
    /\ (wpc # "none" \/ calls # <<>>) => \E i \in 1 .. Len(syncs) : syncs[i] = <<0, 0>>

C6_NoAddressNoWorker ==
    /\ []C6_AddressChecked
    /\ [][aborted' = "ble_hs_util_ensure_addr"
            => wpc' = wpc /\ taskInits' = taskInits /\ calls' = calls]_vars
    /\ Halted

C6_Witness ==
    /\ aborted = "ble_hs_util_ensure_addr"
    /\ Len(syncs) = 1
    /\ wpc = "none"
    /\ calls = <<>>

(***************************************************************************)
(* C7: blepadv_gap_event returns 0 for every event, advertising-complete   *)
(* or not, in every state in which the host calls it, and never halts the  *)
(* process.                                                                *)
(***************************************************************************)
AdvCompleteEntry(r) == Entry("Adv. complete, instance %d reason %d,", "", 0, r)

NotHandledEntry == Entry("Event %d not handled", "OTHER", 0, 0)

C7_AlwaysHandled ==
    /\ [](nGap > 0 => gapRet = 0)
    /\ [][nGap' # nGap => gapRet' = 0 /\ aborted' = "none"]_vars

C7_Witness ==
    /\ gapRet = 0
    /\ nGap > 0
    /\ BagIn(NotHandledEntry, log)

(***************************************************************************)
(* C8: a call of blepadv_gap_event leaves the instance state, the worker   *)
(* task, the semaphore and the calls issued as they are; it adds one entry *)
(* to the log and nothing else.                                            *)
(***************************************************************************)
C8_GapEventFrame ==
    [][nGap' # nGap =>
          /\ UNCHANGED <<state, trace, gap_cb, data, calls>>
          /\ UNCHANGED <<wpc, taskInits, sem, pends, pendRc, beats>>
          /\ UNCHANGED <<mpc, ble_hs_cfg, hostSynced, syncs, nReset, aborted>>
          /\ \E e \in {NotHandledEntry} \cup {AdvCompleteEntry(r) : r \in Reasons} :
                log' = log (+) SetToBag({e})]_vars

C8_Witness ==
    /\ state = "ExtendedStarted"
    /\ nGap > 0
    /\ BagIn(AdvCompleteEntry(13), log)

(***************************************************************************)
(* C9: nothing posts to blepadv_main_sem, so it holds no token in any      *)
(* state and os_sem_pend returns by timeout; under fair scheduling a       *)
(* worker task, once created, reaches the heartbeat loop with the instance *)
(* ExtendedStarted unless an assert halts the process.                     *)
(***************************************************************************)
Settled ==
    \/ wpc = "heartbeat" /\ state = "ExtendedStarted"
    \/ aborted # "none"

C9_WaitElapses ==
    /\ [](sem.tokens = 0 /\ pendRc \in {"none", "OS_TIMEOUT"})
    /\ (wpc = "os_sem_pend") ~> (Settled /\ (aborted = "none" => pendRc = "OS_TIMEOUT"))
    /\ (wpc # "none") ~> Settled

C9_Witness ==
    /\ wpc = "heartbeat"
    /\ state = "ExtendedStarted"
    /\ pendRc = "OS_TIMEOUT"
    /\ sem = [init |-> TRUE, tokens |-> 0]

C11_IssuedByWorker ==
    [][calls' # calls =>
          /\ Len(calls') = Len(calls) + 1
          /\ SubSeq(calls', 1, Len(calls)) = calls
          /\ wpc = calls'[Len(calls')][1]
          /\ InConfigurator
          /\ UNCHANGED <<mpc, hostSynced, syncs, nReset, nGap, taskInits>>]_vars

C11_OneExecution ==
    \A i, j \in 1 .. Len(RunCalls) : RunCalls[i][1] = RunCalls[j][1] => i = j

C11_SingleWriter == C11_IssuedByWorker /\ []C11_OneExecution

C11_Witness ==
    /\ wpc = "ble_gap_periodic_adv_configure"
    /\ Len(RunCalls) = 3
    /\ nGap > 0
    /\ nReset > 0

(***************************************************************************)
(* C12: a call of blepadv_on_reset, whatever the reason and the state,     *)
(* leaves the instance, the worker task, the semaphore and the calls       *)
(* issued as they are and creates no task; it adds one entry to the log.   *)
(***************************************************************************)
ResetEntry(r) == Entry("Resetting state; reason=%d", "", 0, r)

C12_ResetFrame ==
    [][nReset' # nReset =>
          /\ UNCHANGED <<state, trace, gap_cb, data, calls, runBase, runStart>>
          /\ UNCHANGED <<wpc, taskInits, sem, pends, pendRc, beats>>
          /\ UNCHANGED <<mpc, ble_hs_cfg, syncs, nGap, gapRet, aborted>>
          /\ \E r \in Reasons : log' = log (+) SetToBag({ResetEntry(r)})]_vars

C12_Witness ==
    /\ nReset > 0
    /\ BagIn(ResetEntry(13), log)
    /\ InConfigurator
    /\ state = "DataSet"

(***************************************************************************)
(* C13: there is no worker task and no configuration call until            *)
(* blepadv_on_sync has been called and its ble_hs_util_ensure_addr has     *)
(* returned 0; the first configuration call is ble_gap_ext_adv_configure,  *)
(* issued with the instance Unconfigured.                                  *)
(***************************************************************************)
C13_SyncedFirst ==
    (wpc # "none" \/ taskInits > 0 \/ calls # <<>>)
        => /\ mpc = "os_eventq_run"
           /\ Len(syncs) > 0
           /\ syncs[1][1] = 0
           /\ \A i \in 1 .. Len(syncs) : Len(syncs[i]) = 2 => syncs[i][1] = 0

C13_FirstCallOnUnconfigured ==
    [][(calls = <<>> /\ calls' # <<>>)
          => /\ state = "Unconfigured"
             /\ calls'[1][1] = "ble_gap_ext_adv_configure"
             /\ \E i \in 1 .. Len(syncs) : syncs[i] = <<0, 0>>]_vars

C13_SyncBeforeWorker == []C13_SyncedFirst /\ C13_FirstCallOnUnconfigured

C13_Witness ==
    /\ calls = <<<<"ble_gap_ext_adv_configure", 0>>>>
    /\ runStart = "Unconfigured"
    /\ syncs = <<<<0, 0>>>>

(***************************************************************************)
(* C14: "Instance 0 started (periodic)" is printed only by a step taken    *)
(* with the instance ExtendedStarted, right after ble_gap_ext_adv_start    *)
(* has returned 0, and once for the execution that prints it: the log      *)
(* never holds more confirmations than ble_gap_ext_adv_start has returned  *)
(* 0, and holds exactly one once the only worker is past the printf.       *)
(***************************************************************************)
Confirmations == CopiesIn(Started, log)

C14_CountedOnce ==
    /\ Confirmations <= Completed
    /\ wpc = "confirm" => Confirmations < Completed
    /\ Pos(wpc) > Pos("confirm") => Confirmations >= 1
    /\ (taskInits = 1 /\ Pos(wpc) > Pos("confirm")) => Confirmations = 1 /\ Completed = 1

C14_PrintedWhenStarted ==
    [][CopiesIn(Started, log') # Confirmations =>
          /\ CopiesIn(Started, log') = Confirmations + 1
          /\ state = "ExtendedStarted"
          /\ calls # <<>>
          /\ calls[Len(calls)] = <<"ble_gap_ext_adv_start", 0>>]_vars

C14_ConfirmedOnceStarted == []C14_CountedOnce /\ C14_PrintedWhenStarted

C14_Witness ==
    /\ Confirmations = 1
    /\ wpc = "os_sem_pend"
    /\ state = "ExtendedStarted"

(***************************************************************************)
(* C15: the heartbeat loop is terminal: a worker that has entered it stays *)
(* in it in every later state, and while in it issues no configuration     *)
(* call and no semaphore operation.                                        *)
(***************************************************************************)
C15_HeartbeatTerminal ==
    [][wpc = "heartbeat" =>
          /\ wpc' = "heartbeat"
          /\ calls' = calls
          /\ sem' = sem
          /\ pends' = pends]_vars

(***************************************************************************)
(* C16: the mbuf is the application's only from its allocation to its      *)
(* submission: it is encoded only once allocated, submitted only once      *)
(* encoded, and once submitted the application does nothing more with it   *)
(* (the variable is next written by the allocation of another mbuf, if     *)
(* ever).                                                                  *)
(***************************************************************************)
C16_BufferHandedOver ==
    [][data' # data =>
          /\ data' = "encoded" => data = "allocated" /\ wpc = "ble_hs_adv_set_fields_mbuf"
          /\ data' = "submitted" => data = "encoded" /\ wpc = "ble_gap_ext_adv_set_data"
          /\ data = "submitted" => data' \in {"NULL", "allocated"} /\ wpc = "os_msys_get_pkthdr"
          /\ data' \in {"NULL", "allocated"} => wpc = "os_msys_get_pkthdr"]_vars

Submissions ==
    Len(SelectSeq(RunCalls, LAMBDA c : c[1] = "ble_gap_ext_adv_set_data"))

C16_SubmittedOnce ==
    /\ Submissions <= 1
    /\ (data \in {"allocated", "encoded"} /\ InConfigurator) => Submissions = 0
    /\ (Submissions = 1 /\ (InConfigurator \/ ConfiguratorReturned)) => data = "submitted"

C16_BufferOwnership == C16_BufferHandedOver /\ []C16_SubmittedOnce

C16_Witness ==
    /\ data = "submitted"
    /\ wpc = "heartbeat"
    /\ Submissions = 1

(***************************************************************************)
(* C17: when os_msys_get_pkthdr returns NULL the process halts with the    *)
(* instance ExtendedConfigured: the flags are not encoded and neither      *)
(* ble_gap_ext_adv_set_data nor a later configuration call is issued.      *)
(***************************************************************************)
C17_HaltedAtAllocation ==
    /\ data = "NULL" <=> aborted = "os_msys_get_pkthdr"
    /\ aborted = "os_msys_get_pkthdr" =>
          /\ state = "ExtendedConfigured"
          /\ wpc = "os_msys_get_pkthdr"
          /\ RunCalls = <<<<"ble_gap_ext_adv_configure", 0>>>>

C17_NoBufferIsFatal == []C17_HaltedAtAllocation /\ Halted

C17_Witness ==
    /\ aborted = "os_msys_get_pkthdr"
    /\ data = "NULL"
    /\ state = "ExtendedConfigured"

(***************************************************************************)
(* C18: when os_task_init returns non-zero in blepadv_on_sync the process  *)
(* halts there: that call creates no task and no step follows; if it is    *)
(* the first sync, blepadv_main_task_fn never runs and no configuration    *)
(* call is issued.                                                         *)
(***************************************************************************)
WelcomeEntry == Entry("BLE Periodic Advertiser main task welcomes you on-board", "", 0, 0)

C18_HaltedAtTaskInit ==
    /\ \A i \in 1 .. Len(syncs) :
          (Len(syncs[i]) = 2 /\ syncs[i][2] # 0) =>
              /\ i = Len(syncs)
              /\ aborted = "os_task_init"
    /\ aborted = "os_task_init" => syncs # <<>> /\ syncs[Len(syncs)][2] # 0
    /\ taskInits = TasksCreated
    /\ (aborted = "os_task_init" /\ Len(syncs) = 1) =>
          /\ wpc = "none"
          /\ calls = <<>>
          /\ ~BagIn(WelcomeEntry, log)

C18_NoTaskIsFatal ==
    /\ []C18_HaltedAtTaskInit
    /\ [][aborted' = "os_task_init"
            => wpc' = wpc /\ taskInits' = taskInits /\ calls' = calls]_vars
    /\ Halted

C18_Witness ==
    /\ aborted = "os_task_init"
    /\ Len(syncs) = 1
    /\ wpc = "none"

(***************************************************************************)
(* C19: os_sem_pend is called only on a semaphore that os_sem_init has     *)
(* initialised with no token, and a failing os_sem_init halts the worker   *)
(* before it issues a configuration call or pends.                         *)
(***************************************************************************)
C19_InitialisedWhenPended ==
    /\ pends > 0 => sem.init
    /\ Pos(wpc) > Pos("os_sem_init") => sem.init /\ sem.tokens = 0
    /\ aborted = "os_sem_init" =>
          /\ wpc = "os_sem_init"
          /\ taskInits = 1 => (~sem.init /\ calls = <<>> /\ pends = 0)

C19_InitBeforePend ==
    /\ []C19_InitialisedWhenPended
    /\ [][pends' # pends => sem.init /\ wpc = "os_sem_pend"]_vars
    /\ Halted

C19_Witness ==
    /\ pends > 0
    /\ sem.init
    /\ pendRc = "OS_TIMEOUT"

(***************************************************************************)
(* C20: main_fn has set reset_cb, sync_cb and store_status_cb before it    *)
(* runs the event queue: whenever the host delivers a sync or a reset,     *)
(* both callbacks are registered.                                          *)
(***************************************************************************)
Registered ==
    /\ ble_hs_cfg.reset_cb = "blepadv_on_reset"
    /\ ble_hs_cfg.sync_cb = "blepadv_on_sync"
    /\ ble_hs_cfg.store_status_cb = "ble_store_util_status_rr"

C20_RegisteredInLoop == mpc = "os_eventq_run" => Registered

C20_RegisteredBeforeEvents ==
    /\ []C20_RegisteredInLoop
    /\ [][(hostSynced' # hostSynced \/ nReset' # nReset \/ syncs' # syncs)
            => Registered /\ mpc = "os_eventq_run"]_vars

C20_Witness ==
    /\ Registered
    /\ Len(syncs) > 0
    /\ nReset > 0

====
